---- MODULE Spec2Model ----
(***************************************************************************)
(* Self-Mastery API (src/main.py, src/schemas.py): schema-validated        *)
(* create/list endpoints over a document store, and the rule-based coach   *)
(* plan generator.                                                         *)
(*                                                                         *)
(* Conventions of the model:                                               *)
(*   - a float is an integer number of tenths (0.6 is 6, 1.0 is 10);       *)
(*   - an Optional[T] value is a sequence: << >> is None, <<v>> is v;      *)
(*   - a text (error message) is a sequence of one-character strings;      *)
(*   - a payload is a function from the field names it gives to values.    *)
(***************************************************************************)
EXTENDS Integers, Sequences, FiniteSets, TLC

VARIABLES
    store,      \* collection name -> sequence of documents (the database)
    clock,      \* the service clock, as a day number
    cp,         \* the POST /coach/plan request in flight (its locals)
    resp,       \* the request and response of the last finished request
    created,    \* history: the records for which a create returned {id}
    planLog     \* history: plan id -> what the request read and saw

vars == <<store, clock, cp, resp, created, planLog>>

\* ------------------------------------------------------------------ bounds
MaxNew == 1        \* Spec: documents created (plans included)
MaxPlans == 1      \* SpecCoach: coach plans created
MaxCoachNew == 1   \* SpecCoach: documents created by create endpoints
MaxPrefs == 1      \* SpecPrefs: preferences documents created
MaxPairNew == 1    \* SpecPair: documents created by create endpoints
MaxPairPlans == 2  \* SpecPair: coach plans created
MaxDay == 2        \* last day the clock reaches
MaxErrLen == 81    \* length of the longest storage error text
SeedHabits == 2    \* habits of u1 in the seeded store
SeedTasks == 5     \* tasks of u1 in the seeded store

\* ------------------------------------------------------- program constants
GlowIntensityDefault == 6
CardOpacityDefault == 2
BoundLo == 0
BoundHi == 10
PomodoroDefault == 25
RecentWindow == 7
TaskThreshold == 5
HabitThreshold == 3
TruncLen == 80

None == << >>
Some(v) == <<v>>

\* -------------------------------------------------------------- schemas.py
Paths ==
    {"profile", "preferences", "habit", "routine", "task", "journal", "mood",
     "money", "savings-goal", "fitness"}

Kinds == Paths \cup {"coachplan"}

\* Fields declared without a default (pydantic: required).
Required(kind) ==
    CASE kind = "profile"      -> {"user_id", "name", "age_group"}
      [] kind = "preferences"  -> {"user_id"}
      [] kind = "habit"        -> {"user_id", "name"}
      [] kind = "routine"      -> {"user_id", "period", "title"}
      [] kind = "task"         -> {"user_id", "title"}
      [] kind = "journal"      -> {"user_id", "date", "content"}
      [] kind = "mood"         -> {"user_id", "date", "mood"}
      [] kind = "money"        -> {"user_id", "date", "type", "amount"}
      [] kind = "savings-goal" -> {"user_id", "name", "target"}
      [] kind = "fitness"      -> {"user_id", "date"}
      [] kind = "coachplan"    -> {"user_id", "date", "summary"}

\* Fields declared with a default, and the default.
Defaults(kind) ==
    CASE kind = "profile" ->
           [goals |-> << >>, discipline_score |-> 0, theme |-> "neon-blue",
            created_at |-> None, updated_at |-> None]
      [] kind = "preferences" ->
           [theme_color |-> "#00E5FF", glow_intensity |-> GlowIntensityDefault,
            card_opacity |-> CardOpacityDefault, font_family |-> "Inter",
            minimal_mode |-> FALSE, notifications |-> TRUE,
            backup_enabled |-> FALSE, created_at |-> None, updated_at |-> None]
      [] kind = "habit" ->
           [icon |-> "Star", glow_color |-> "#7C3AED", schedule |-> << >>,
            streak |-> 0, analytics |-> << >>, archived |-> FALSE]
      [] kind = "routine" -> [tasks |-> << >>, animated |-> TRUE]
      [] kind = "task" ->
           [notes |-> None, due_date |-> None, status |-> "todo",
            pomodoro_minutes |-> Some(PomodoroDefault), order |-> 0]
      [] kind = "journal" -> [template |-> "free", locked |-> FALSE]
      [] kind = "mood" -> [reason |-> None]
      [] kind = "money" -> [note |-> None]
      [] kind = "savings-goal" -> [progress |-> 0]
      [] kind = "fitness" ->
           [weight |-> None, steps |-> None, hydration_liters |-> None,
            skincare |-> << >>, gym_routine |-> << >>, checklist |-> << >>]
      [] kind = "coachplan" -> [focus |-> << >>, actions |-> << >>]

Fields(kind) == Required(kind) \cup DOMAIN Defaults(kind)

\* Literal[...] fields and their value sets.
Enums(kind) ==
    CASE kind = "profile" ->
           [age_group |-> {"teen", "young_adult", "adult", "senior"}]
      [] kind = "routine" -> [period |-> {"morning", "afternoon", "night"}]
      [] kind = "task" -> [status |-> {"todo", "in_progress", "done"}]
      [] kind = "journal" ->
           [template |-> {"gratitude", "reflection", "ideas", "free"}]
      [] kind = "mood" ->
           [mood |-> {"ecstatic", "happy", "calm", "neutral", "stressed", "sad"}]
      [] kind = "money" -> [type |-> {"income", "expense", "saving"}]
      [] OTHER -> << >>

\* Field(..., ge=lo, le=hi) fields.
Bounded(kind) ==
    IF kind = "preferences" THEN {"glow_intensity", "card_opacity"} ELSE {}

\* Mutant of InBounds: gt/lt in place of ge/le.
InBoundsExclusive(v) == BoundLo < v /\ v < BoundHi

InBounds(v) == BoundLo <= v /\ v <= BoundHi

\* Request-body validation of a create endpoint: every required field is
\* given, every enum field given is in its set, every bounded field given is
\* in range.
Validate(kind, p) ==
    /\ Required(kind) \subseteq DOMAIN p
    /\ \A f \in DOMAIN Enums(kind) \cap DOMAIN p : p[f] \in Enums(kind)[f]
    /\ \A f \in Bounded(kind) \cap DOMAIN p : InBounds(p[f])

\* The validated model instance: the given fields, defaults for the rest.
ModelOf(kind, p) ==
    [f \in Fields(kind) |-> IF f \in DOMAIN p THEN p[f] ELSE Defaults(kind)[f]]

\* ------------------------------------------------- the document store
\* database.py is not among the sources: create_document and get_documents
\* are modelled from the specification (one collection per
\* record kind, insert of a new document with a generated identifier and
\* server timestamps, read of the documents matching a user_id, in insertion
\* order; either call may raise).
Collections ==
    {"profile", "preferences", "habit", "routine", "task", "journalentry",
     "mood", "moneyrecord", "savingsgoal", "fitnessmetric", "coachplan"}

EmptyStore == [c \in Collections |-> << >>]

NewId(st, coll) == <<coll, Len(st[coll]) + 1>>

Stamp(rec, now) ==
    [f \in DOMAIN rec |->
        IF f \in {"created_at", "updated_at"} THEN Some(now) ELSE rec[f]]

CreateDocument(st, coll, rec, now) ==
    [st EXCEPT ![coll] =
        Append(@, [id |-> NewId(st, coll), rec |-> Stamp(rec, now)])]

MatchesUser(d, u) == d.rec.user_id = u

GetDocuments(st, coll, u) == SelectSeq(st[coll], LAMBDA d : MatchesUser(d, u))

\* Outcome of one storage call: no exception, or the text of the exception.
NoError == << >>
ShortErr == <<"d", "o", "w", "n">>
LongErr == [i \in 1..MaxErrLen |-> "x"]
ErrTexts == {ShortErr, LongErr}
Outcomes == {NoError} \cup ErrTexts

\* ------------------------------------------------------------- main.py
\* Collection a create endpoint writes to.
CreateCollection(path) ==
    CASE path = "profile"      -> "profile"
      [] path = "preferences"  -> "preferences"
      [] path = "habit"        -> "habit"
      [] path = "routine"      -> "routine"
      [] path = "task"         -> "task"
      [] path = "journal"      -> "journalentry"
      [] path = "mood"         -> "mood"
      [] path = "money"        -> "moneyrecord"
      [] path = "savings-goal" -> "savingsgoal"
      [] path = "fitness"      -> "fitnessmetric"

\* Paths that have a GET route, and the collection it reads.
ListPaths ==
    {"habit", "routine", "task", "journal", "mood", "money", "savings-goal",
     "fitness"}

ListCollection(path) ==
    CASE path = "habit"        -> "habit"
      [] path = "routine"      -> "routine"
      [] path = "task"         -> "task"
      [] path = "journal"      -> "journalentry"
      [] path = "mood"         -> "mood"
      [] path = "money"        -> "moneyrecord"
      [] path = "savings-goal" -> "savingsgoal"
      [] path = "fitness"      -> "fitnessmetric"

\* str(e) of the HTTPException raised by _insert, as generate_coach_plan's own
\* handler formats it: "<status_code>: <detail>".
StrHTTPException(detail) == <<"5", "0", "0", ":", " ">> \o detail

Response(op, path, req, status, id, detail, docs) ==
    [op |-> op, path |-> path, req |-> req, status |-> status, id |-> id,
     detail |-> detail, docs |-> docs]

\* Mutant of Insert: the document is written over the one of the same owner
\* and date when there is one (an upsert in place of an insert).
InsertUpsert(st, coll, rec, now, outcome) ==
    LET same(d) == /\ "date" \in DOMAIN rec
                   /\ d.rec.user_id = rec.user_id
                   /\ d.rec.date = rec.date
        hits == {i \in 1..Len(st[coll]) : same(st[coll][i])}
    IN  IF outcome # NoError
        THEN [store |-> st, status |-> 500, id |-> None, detail |-> outcome]
        ELSE IF hits = {}
        THEN [store |-> CreateDocument(st, coll, rec, now), status |-> 200,
              id |-> NewId(st, coll), detail |-> << >>]
        ELSE LET i == CHOOSE j \in hits : TRUE
             IN  [store |-> [st EXCEPT ![coll][i].rec = Stamp(rec, now)],
                  status |-> 200, id |-> st[coll][i].id, detail |-> << >>]

\* Mutant of Insert: the exception is raised after the document was written.
InsertThenFail(st, coll, rec, now, outcome) ==
    [store |-> CreateDocument(st, coll, rec, now),
     status |-> IF outcome = NoError THEN 200 ELSE 500,
     id |-> IF outcome = NoError THEN NewId(st, coll) ELSE None,
     detail |-> outcome]

\* _insert: one create_document call; its identifier on success, status 500
\* with str(e) as detail when it raises.  The result is the new store and the
\* response fields.
Insert(st, coll, rec, now, outcome) ==
    IF outcome = NoError
    THEN [store |-> CreateDocument(st, coll, rec, now), status |-> 200,
          id |-> NewId(st, coll), detail |-> << >>]
    ELSE [store |-> st, status |-> 500, id |-> None, detail |-> outcome]

\* ------------------------------------------------------- coach plan rules
Stress == <<"short wins", "breathing", "walk">>
Fallback == <<"consistency", "deep work", "hydration">>

\* Mutant of Focus: the task rule fires at the threshold itself.
FocusAtThreshold(mood, habits, tasks, recent_moods) ==
    LET f1 == IF mood \in {Some("stressed"), Some("sad")} THEN Stress ELSE << >>
        f2 == IF Len(tasks) >= TaskThreshold
              THEN f1 \o <<"prioritize top 3">> ELSE f1
        f3 == IF Len(habits) < HabitThreshold
              THEN f2 \o <<"add a keystone habit">> ELSE f2
    IN  IF f3 = << >> THEN Fallback ELSE f3

\* Mutant of Focus: the stress rule also consults the latest stored mood.
FocusFromMoods(mood, habits, tasks, recent_moods) ==
    LET last == IF recent_moods = << >> THEN None
                ELSE Some(recent_moods[Len(recent_moods)].rec.mood)
        f1 == IF mood \in {Some("stressed"), Some("sad")}
                 \/ last \in {Some("stressed"), Some("sad")}
              THEN Stress ELSE << >>
        f2 == IF Len(tasks) > TaskThreshold
              THEN f1 \o <<"prioritize top 3">> ELSE f1
        f3 == IF Len(habits) < HabitThreshold
              THEN f2 \o <<"add a keystone habit">> ELSE f2
    IN  IF f3 = << >> THEN Fallback ELSE f3

\* generate_coach_plan, the focus rules: mood is the optional hint of the
\* query, habits and tasks are the lists read for the user.
Focus(mood, habits, tasks, recent_moods) ==
    LET f1 == IF mood \in {Some("stressed"), Some("sad")} THEN Stress ELSE << >>
        f2 == IF Len(tasks) > TaskThreshold
              THEN f1 \o <<"prioritize top 3">> ELSE f1
        f3 == IF Len(habits) < HabitThreshold
              THEN f2 \o <<"add a keystone habit">> ELSE f2
    IN  IF f3 = << >> THEN Fallback ELSE f3

PlanActions ==
    << [title |-> "10-min warmup", time |-> "05:15"],
       [title |-> "Deep work block", time |-> "06:00"],
       [title |-> "Move + hydrate", time |-> "08:00"] >>

\* Mutant of MakePlan: the actions are not passed to the constructor.
MakePlanNoActions(user_id, today, focus) ==
    ModelOf("coachplan",
        [user_id |-> user_id, date |-> today,
         summary |-> "Personalized plan generated.", focus |-> focus])

\* CoachPlan(user_id=..., date=today, summary=..., focus=..., actions=...)
MakePlan(user_id, today, focus) ==
    ModelOf("coachplan",
        [user_id |-> user_id, date |-> today,
         summary |-> "Personalized plan generated.", focus |-> focus,
         actions |-> PlanActions])

\* datetime.now().strftime("%Y-%m-%d"), for the days of the model's month.
DateStr(day) == "2026-11-0" \o ToString(day)

\* list[-n:]
LastN(s, n) == IF Len(s) <= n THEN s ELSE SubSeq(s, Len(s) - n + 1, Len(s))

\* --------------------------------------------------------------- inputs
With(p, f, v) == [g \in DOMAIN p \cup {f} |-> IF g = f THEN v ELSE p[g]]
Without(p, f) == [g \in DOMAIN p \ {f} |-> p[g]]

Base(path, u) ==
    CASE path = "profile" ->
           [user_id |-> u, name |-> "Ann", age_group |-> "adult"]
      [] path = "preferences" -> [user_id |-> u]
      [] path = "habit" -> [user_id |-> u, name |-> "run"]
      [] path = "routine" ->
           [user_id |-> u, period |-> "morning", title |-> "wake"]
      [] path = "task" -> [user_id |-> u, title |-> "write"]
      [] path = "journal" ->
           [user_id |-> u, date |-> "2026-11-01", content |-> "text"]
      [] path = "mood" -> [user_id |-> u, date |-> "2026-11-01", mood |-> "calm"]
      [] path = "money" ->
           [user_id |-> u, date |-> "2026-11-01", type |-> "income",
            amount |-> 50]
      [] path = "savings-goal" -> [user_id |-> u, name |-> "car", target |-> 900]
      [] path = "fitness" -> [user_id |-> u, date |-> "2026-11-01"]

\* Requests of the general specification: for every path a well-formed body
\* for two owners (one of them the empty string), a body with an optional
\* field given, and bodies that miss a required field or carry a value
\* outside an enum or a bound.
Users == {"u1", ""}

Optionals(path) ==
    CASE path = "preferences" -> {With(Base(path, "u1"), "card_opacity", BoundHi)}
      [] path = "task" -> {With(Base(path, "u1"), "status", "done")}
      [] path = "habit" -> {With(Base(path, "u1"), "streak", 4)}
      [] OTHER -> {}

Payloads(path) ==
    {Base(path, u) : u \in Users}
    \cup Optionals(path)
    \cup {Without(Base(path, "u1"), f) : f \in Required(path)}
    \cup {With(Base(path, "u1"), f, "Bogus") : f \in DOMAIN Enums(path)}
    \cup {With(Base(path, "u1"), f, BoundHi + 1) : f \in Bounded(path)}

NoQuery == [f \in {} |-> ""]
ListQueries == {[user_id |-> u] : u \in Users} \cup {NoQuery}
CoachQueries == {[user_id |-> "", mood |-> "sad"], [mood |-> "sad"]}

\* Requests of the preferences specification: glow_intensity and
\* card_opacity given or omitted, at, inside and outside the bounds.
BoundSamples == {BoundLo - 1, BoundLo, BoundHi - 1, BoundHi, BoundHi + 1}

PrefsPayloads ==
    LET b == Base("preferences", "u1")
    IN  {b}
        \cup {With(b, "glow_intensity", g) : g \in BoundSamples}
        \cup {With(b, "card_opacity", o) : o \in BoundSamples}
        \cup {With(With(b, "glow_intensity", g), "card_opacity", o) :
                 g \in BoundSamples, o \in BoundSamples}

\* Requests of the coach specification: two owners create habits, routines,
\* tasks and moods; plans are asked for with and without a mood hint.
CoachUsers == {"u1", "u2"}
CoachPaths == {"habit", "routine", "task", "mood"}

CoachPayloads(path) ==
    CASE path = "habit" -> {Base(path, u) : u \in CoachUsers}
      [] path = "mood" -> {With(Base(path, "u1"), "mood", "stressed")}
      [] OTHER -> {Base(path, "u1")}

\* Requests of the pair specification: a habit and a "stressed" mood of the
\* user the plans are for, a task of another user.
PairPayloads(path) ==
    CASE path = "habit" -> {Base(path, "u1")}
      [] path = "mood" -> {With(Base(path, "u1"), "mood", "stressed")}
      [] path = "task" -> {Base(path, "u2")}
      [] OTHER -> {}

PairQueries == {[user_id |-> "u1"], [user_id |-> "u1", mood |-> "sad"]}

HintTexts == {"stressed", "sad", "happy", "Sad"}
PlanQueries ==
    {[user_id |-> "u1", mood |-> m] : m \in HintTexts}
    \cup {[user_id |-> u] : u \in CoachUsers}
    \cup {[user_id |-> "u2", mood |-> "sad"]}

\* ---------------------------------------------------------------- state
Idle ==
    [pc |-> "idle", req |-> NoQuery, user_id |-> "", mood |-> None,
     today |-> "", habits |-> << >>, routines |-> << >>, tasks |-> << >>,
     recent_moods |-> << >>]

NoResponse == Response("none", "", NoQuery, 0, None, << >>, << >>)

SeedDoc(path, n) ==
    [id |-> <<CreateCollection(path), n>>,
     rec |-> Stamp(ModelOf(path, Base(path, "u1")), 1)]

\* A store left by earlier runs of the service: SeedHabits habits and
\* SeedTasks tasks of u1.
SeededStore ==
    [EmptyStore EXCEPT !["habit"] = [n \in 1..SeedHabits |-> SeedDoc("habit", n)],
                       !["task"] = [n \in 1..SeedTasks |-> SeedDoc("task", n)]]

InitWith(st) ==
    /\ store = st
    /\ clock = 1
    /\ cp = Idle
    /\ resp = NoResponse
    /\ created = {}
    /\ planLog = {}

Init == InitWith(EmptyStore)
InitSeeded == InitWith(SeededStore)

\* POST /<path> with body p; outcome is what create_document does (no call
\* is made, so there is no outcome, when the body is rejected).
CreateReq(path, p, outcome) ==
    /\ UNCHANGED <<clock, cp, planLog>>
    /\ IF ~Validate(path, p)
       THEN /\ outcome = NoError
            /\ resp' = Response("create", path, p, 422, None, << >>, << >>)
            /\ UNCHANGED <<store, created>>
       ELSE LET r == Insert(store, CreateCollection(path), ModelOf(path, p),
                            clock, outcome)
            IN  /\ store' = r.store
                /\ resp' = Response("create", path, p, r.status, r.id, r.detail,
                                    << >>)
                /\ created' =
                       IF r.status = 200
                       THEN created \cup {[path |-> path, req |-> p, id |-> r.id]}
                       ELSE created

\* GET /<path>?user_id=...; outcome is what get_documents does (no call is
\* made when there is no such route or the query is rejected).
ListReq(path, q, outcome) ==
    /\ UNCHANGED <<store, clock, cp, created, planLog>>
    /\ (path \notin ListPaths \/ "user_id" \notin DOMAIN q) => outcome = NoError
    /\ resp' =
         IF path \notin ListPaths
         THEN Response("list", path, q, 405, None, << >>, << >>)
         ELSE IF "user_id" \notin DOMAIN q
         THEN Response("list", path, q, 422, None, << >>, << >>)
         ELSE IF outcome = NoError
         THEN Response("list", path, q, 200, None, << >>,
                       GetDocuments(store, ListCollection(path), q.user_id))
         ELSE Response("list", path, q, 500, None, outcome, << >>)

\* POST /coach/plan?user_id=...&mood=...: the request is accepted and reads
\* the clock; it has no response yet.
CoachStart(q) ==
    /\ cp.pc = "idle"
    /\ UNCHANGED <<store, clock, created, planLog>>
    /\ IF "user_id" \notin DOMAIN q
       THEN /\ resp' = Response("coach", "coach/plan", NoQuery, 422, None, << >>, << >>)
            /\ UNCHANGED cp
       ELSE /\ cp' = [Idle EXCEPT !.pc = "habits", !.req = q,
                        !.user_id = q.user_id,
                        !.mood = IF "mood" \in DOMAIN q THEN Some(q.mood) ELSE None,
                        !.today = DateStr(clock)]
            /\ resp' = NoResponse

\* Mutant of CoachFail: the exception is swallowed and the plan is written.
CoachFailSwallowed(detail) ==
    /\ cp' = [cp EXCEPT !.pc = "insert"]
    /\ UNCHANGED resp

\* except Exception as e: raise HTTPException(500, str(e)); the request ends.
CoachFail(detail) ==
    /\ resp' = Response("coach", "coach/plan", NoQuery, 500, None, detail, << >>)
    /\ cp' = Idle

CoachReadHabits(outcome) ==
    /\ cp.pc = "habits"
    /\ UNCHANGED <<store, clock, created, planLog>>
    /\ IF outcome = NoError
       THEN /\ cp' = [cp EXCEPT !.pc = "routines",
                        !.habits = GetDocuments(store, "habit", cp.user_id)]
            /\ UNCHANGED resp
       ELSE CoachFail(outcome)

CoachReadRoutines(outcome) ==
    /\ cp.pc = "routines"
    /\ UNCHANGED <<store, clock, created, planLog>>
    /\ IF outcome = NoError
       THEN /\ cp' = [cp EXCEPT !.pc = "tasks",
                        !.routines = GetDocuments(store, "routine", cp.user_id)]
            /\ UNCHANGED resp
       ELSE CoachFail(outcome)

CoachReadTasks(outcome) ==
    /\ cp.pc = "tasks"
    /\ UNCHANGED <<store, clock, created, planLog>>
    /\ IF outcome = NoError
       THEN /\ cp' = [cp EXCEPT !.pc = "moods",
                        !.tasks = GetDocuments(store, "task", cp.user_id)]
            /\ UNCHANGED resp
       ELSE CoachFail(outcome)

CoachReadMoods(outcome) ==
    /\ cp.pc = "moods"
    /\ UNCHANGED <<store, clock, created, planLog>>
    /\ IF outcome = NoError
       THEN /\ cp' = [cp EXCEPT !.pc = "insert",
                        !.recent_moods =
                            LastN(GetDocuments(store, "mood", cp.user_id),
                                  RecentWindow)]
            /\ UNCHANGED resp
       ELSE CoachFail(outcome)

\* What the request read, kept beside the plan it wrote.
PlanRecord(id) ==
    [id |-> id, req |-> cp.req, mood |-> cp.mood, habits |-> cp.habits, routines |-> cp.routines,
     tasks |-> cp.tasks, recent_moods |-> cp.recent_moods,
     habitsAtInsert |-> GetDocuments(store, "habit", cp.user_id),
     tasksAtInsert |-> GetDocuments(store, "task", cp.user_id)]

\* The plan is built from the lists read and inserted through _insert; the
\* handler's own except clause re-raises _insert's HTTPException.
CoachInsert(outcome) ==
    /\ cp.pc = "insert"
    /\ UNCHANGED <<clock, created>>
    /\ LET focus == Focus(cp.mood, cp.habits, cp.tasks, cp.recent_moods)
           plan == MakePlan(cp.user_id, cp.today, focus)
           r == Insert(store, "coachplan", plan, clock, outcome)
       IN  /\ store' = r.store
           /\ cp' = Idle
           /\ IF r.status = 200
              THEN /\ resp' = Response("coach", "coach/plan", NoQuery, 200, r.id,
                                       << >>, << >>)
                   /\ planLog' = planLog \cup {PlanRecord(r.id)}
              ELSE /\ resp' = Response("coach", "coach/plan", NoQuery, 500, None,
                                       StrHTTPException(r.detail), << >>)
                   /\ UNCHANGED planLog

\* The worker dies while the request is in flight: no response is sent.
CoachCrash ==
    /\ cp.pc # "idle"
    /\ cp' = Idle
    /\ resp' = Response("coach", "coach/plan", NoQuery, 0, None, << >>, << >>)
    /\ UNCHANGED <<store, clock, created, planLog>>

Tick ==
    /\ clock < MaxDay
    /\ clock' = clock + 1
    /\ UNCHANGED <<store, cp, resp, created, planLog>>

\* Room for more documents within the bounds of a specification.
Room(maxNew) == Cardinality(created) < maxNew
PlanRoom(maxPlans) == Cardinality(planLog) < maxPlans
DocRoom(maxDocs) == Cardinality(created) + Cardinality(planLog) < maxDocs

CoachReads(outcomes) ==
    \/ \E o \in outcomes : CoachReadHabits(o)
    \/ \E o \in outcomes : CoachReadRoutines(o)
    \/ \E o \in outcomes : CoachReadTasks(o)
    \/ \E o \in outcomes : CoachReadMoods(o)

\* One worker: a handler runs to its end before the next request is taken.
Next ==
    \/ \E path \in Paths : \E p \in Payloads(path) : \E o \in Outcomes :
           /\ cp.pc = "idle"
           /\ o = NoError => DocRoom(MaxNew)
           /\ CreateReq(path, p, o)
    \/ \E path \in Paths : \E q \in ListQueries : \E o \in {NoError, ShortErr} :
           cp.pc = "idle" /\ ListReq(path, q, o)
    \/ \E q \in CoachQueries : CoachStart(q)
    \/ CoachReads(Outcomes)
    \/ \E o \in Outcomes : (o = NoError => DocRoom(MaxNew)) /\ CoachInsert(o)
    \/ CoachCrash

NextPrefs ==
    \/ \E p \in PrefsPayloads : \E o \in Outcomes :
           (o = NoError => Room(MaxPrefs)) /\ CreateReq("preferences", p, o)
    \/ Tick

NextCoach ==
    \/ \E path \in CoachPaths : \E p \in CoachPayloads(path) :
           Room(MaxCoachNew) /\ CreateReq(path, p, NoError)
    \/ \E q \in PlanQueries : CoachStart(q)
    \/ CoachReads({NoError, ShortErr})
    \/ \E o \in {NoError, ShortErr} :
           (o = NoError => PlanRoom(MaxPlans)) /\ CoachInsert(o)
    \/ CoachCrash

NextPair ==
    \/ \E path \in CoachPaths : \E p \in PairPayloads(path) :
           Room(MaxPairNew) /\ CreateReq(path, p, NoError)
    \/ \E q \in PairQueries : CoachStart(q)
    \/ CoachReads({NoError})
    \/ PlanRoom(MaxPairPlans) /\ CoachInsert(NoError)
    \/ Tick

\* Every endpoint, from an empty store, requests served one at a time.
Spec == Init /\ [][Next]_vars

\* POST /preferences alone, over the range of the bounded fields.
SpecPrefs == Init /\ [][NextPrefs]_vars

\* One coach plan request interleaved with creates of the records it reads
\* (several workers over one database), from a store that already holds
\* habits and tasks.
SpecCoach == InitSeeded /\ [][NextCoach]_vars

\* Successive coach plan requests interleaved with creates, storage never
\* failing.
SpecPair == InitSeeded /\ [][NextPair]_vars

\* ================================================================ claims
Range(seq) == {seq[i] : i \in 1..Len(seq)}
AllDocs == UNION {Range(store[c]) : c \in Collections}
PlanDoc(e) == store["coachplan"][e.id[2]]
IsPost(r) == r.op \in {"create", "coach"}

\* The focus list as the rules state it, from the hint and the two counts.
RuleFocus(mood, h, t) ==
    LET stress == mood \in {Some("stressed"), Some("sad")}
        rules == (IF stress THEN <<"short wins", "breathing", "walk">> ELSE << >>)
                 \o (IF t > 5 THEN <<"prioritize top 3">> ELSE << >>)
                 \o (IF h < 3 THEN <<"add a keystone habit">> ELSE << >>)
    IN  IF ~stress /\ ~(t > 5) /\ ~(h < 3)
        THEN <<"consistency", "deep work", "hydration">>
        ELSE rules

\* C1: the focus of every plan POST /coach/plan persisted is the in-order
\* concatenation of the stress tags (hint exactly "stressed" or "sad"), the
\* task tag (more than 5 tasks read) and the habit tag (fewer than 3 habits
\* read), and the fallback list exactly when none of the three holds; it is
\* never empty and never mixes fallback tags with rule tags.
C1_FocusRules ==
    \A e \in planLog :
        LET focus == PlanDoc(e).rec.focus
        IN  /\ focus = RuleFocus(e.mood, Len(e.habits), Len(e.tasks))
            /\ focus # << >>
            /\ \/ focus = Fallback
               \/ Range(focus) \cap Range(Fallback) = {}

\* C1 witness: a plan written for no hint, 3 habits and 5 tasks, with the
\* fallback focus.
C1_Witness ==
    \E e \in planLog :
        /\ e.mood = None /\ Len(e.habits) = 3 /\ Len(e.tasks) = 5
        /\ PlanDoc(e).rec.focus = <<"consistency", "deep work", "hydration">>

\* C2: every persisted coach plan has the fixed summary and the fixed ordered
\* action list, and carries the user_id of the request that wrote it.
C2_FixedPlan ==
    \A e \in planLog :
        LET rec == PlanDoc(e).rec
        IN  /\ rec.summary = "Personalized plan generated."
            /\ rec.actions =
                 << [title |-> "10-min warmup", time |-> "05:15"],
                    [title |-> "Deep work block", time |-> "06:00"],
                    [title |-> "Move + hydrate", time |-> "08:00"] >>
            /\ rec.user_id = e.req.user_id

\* C2 witness: a plan written for u2 with hint "sad" while u2 has a habit.
C2_Witness ==
    \E e \in planLog :
        /\ e.req = [user_id |-> "u2", mood |-> "sad"]
        /\ Len(e.habits) > 0
        /\ PlanDoc(e).rec.user_id = "u2"

\* C3: two plans whose requests agree on the mood hint, on the number of
\* habits and on the number of tasks read have the same focus, actions and
\* summary, whatever the routines and moods read and whatever else is stored.
C3_Determinism ==
    \A e1 \in planLog : \A e2 \in planLog :
        ( /\ e1.mood = e2.mood
          /\ Len(e1.habits) = Len(e2.habits)
          /\ Len(e1.tasks) = Len(e2.tasks) )
        => /\ PlanDoc(e1).rec.focus = PlanDoc(e2).rec.focus
           /\ PlanDoc(e1).rec.actions = PlanDoc(e2).rec.actions
           /\ PlanDoc(e1).rec.summary = PlanDoc(e2).rec.summary

\* C3 witness: two plans agreeing on hint and counts, the second written
\* after a "stressed" mood of the user was stored and read.
C3_Witness ==
    \E e1 \in planLog : \E e2 \in planLog :
        /\ e1.id # e2.id
        /\ e1.mood = e2.mood
        /\ Len(e1.habits) = Len(e2.habits)
        /\ Len(e1.tasks) = Len(e2.tasks)
        /\ e1.recent_moods = << >>
        /\ e2.recent_moods # << >>
        /\ e2.recent_moods[Len(e2.recent_moods)].rec.mood = "stressed"

\* C4 (as claimed): whenever GET /{kind}?user_id=u answers without a storage
\* failure, it answers 200 and returns every record created through
\* POST /{kind} for u, each submitted field equal to the submitted value.
C4_RoundTripEveryKind ==
    (resp.op = "list" /\ resp.status # 500 /\ "user_id" \in DOMAIN resp.req) =>
        \A c \in created :
            (c.path = resp.path /\ c.req.user_id = resp.req.user_id) =>
                /\ resp.status = 200
                /\ \E i \in 1..Len(resp.docs) :
                       /\ resp.docs[i].id = c.id
                       /\ \A f \in DOMAIN c.req \ {"created_at", "updated_at"} :
                              resp.docs[i].rec[f] = c.req[f]

\* C4, for the paths that have a GET route: the same round trip holds.
C4_RoundTripListed ==
    (resp.op = "list" /\ resp.status = 200) =>
        \A c \in created :
            (c.path = resp.path /\ c.req.user_id = resp.req.user_id) =>
                \E i \in 1..Len(resp.docs) :
                    /\ resp.docs[i].id = c.id
                    /\ \A f \in DOMAIN c.req \ {"created_at", "updated_at"} :
                           resp.docs[i].rec[f] = c.req[f]

\* The store grew, in this step, by exactly one document, of a new id, at
\* the end of one collection, and nothing else in it changed.
GrewByOne ==
    \E c \in Collections :
        /\ Len(store'[c]) = Len(store[c]) + 1
        /\ SubSeq(store'[c], 1, Len(store[c])) = store[c]
        /\ \A c2 \in Collections \ {c} : store'[c2] = store[c2]
        /\ \A d \in AllDocs : d.id # store'[c][Len(store'[c])].id

\* C5: the store is append-only: a step changes the store only by adding one
\* new document to one collection, at the end of a POST that returns its id,
\* and leaves every existing document present and unchanged.
C5_AppendOnly ==
    [][ store' # store =>
            /\ GrewByOne
            /\ IsPost(resp') /\ resp'.status = 200
            /\ \E c \in Collections :
                   /\ store'[c] # store[c]
                   /\ store'[c][Len(store'[c])].id = resp'.id ]_vars

\* C5 witness: two plans of the same user and date, with different ids.
C5_Witness ==
    /\ Len(store["coachplan"]) = 2
    /\ store["coachplan"][1].rec.user_id = store["coachplan"][2].rec.user_id
    /\ store["coachplan"][1].rec.date = store["coachplan"][2].rec.date
    /\ store["coachplan"][1].id # store["coachplan"][2].id

\* The document a successful POST response stands for.
Persisted(r, st) ==
    IF r.op = "create"
    THEN LET coll == st[CreateCollection(r.path)]
         IN  /\ Validate(r.path, r.req)
             /\ \E i \in 1..Len(coll) :
                    /\ coll[i].id = r.id
                    /\ \A f \in Fields(r.path) \ {"created_at", "updated_at"} :
                           coll[i].rec[f] = ModelOf(r.path, r.req)[f]
    ELSE \E i \in 1..Len(st["coachplan"]) : st["coachplan"][i].id = r.id

\* C6: a request fully succeeds or fully fails: the store changes only in a
\* step that ends a POST with {id}, and then by exactly the one validated
\* record; a POST answered {id} has its record in the store; a POST whose
\* body fails validation is answered with an error.
C6_AllOrNothing ==
    [][ /\ store' # store =>
              /\ IsPost(resp') /\ resp'.status = 200
              /\ GrewByOne
        /\ (IsPost(resp') /\ resp'.status = 200) => Persisted(resp', store')
        /\ (resp'.op = "create" /\ ~Validate(resp'.path, resp'.req)) =>
              resp'.status = 422 ]_vars

\* C6 witness: a valid create whose storage call failed: status 500 and an
\* empty store.
C6_Witness ==
    /\ resp.op = "create" /\ resp.status = 500
    /\ Validate(resp.path, resp.req)
    /\ store = EmptyStore

\* C7 (as claimed): every persisted document has a non-empty user_id.
C7_NonEmptyUserId == \A d \in AllDocs : d.rec.user_id # ""

\* The value a preferences body gives a bounded field, or the default the
\* claim names (in tenths).
Given(p, f, default) == IF f \in DOMAIN p THEN p[f] ELSE default

\* C8: POST /preferences accepts a body (otherwise well-formed) exactly when
\* glow_intensity and card_opacity, taken as given or as their defaults 0.6
\* and 0.2, both lie in [0, 1]; an accepted body is stored with these values.
C8_PreferencesBounds ==
    (resp.op = "create" /\ resp.path = "preferences"
        /\ "user_id" \in DOMAIN resp.req) =>
        LET g == Given(resp.req, "glow_intensity", 6)
            o == Given(resp.req, "card_opacity", 2)
        IN  /\ resp.status # 422 <=> (0 <= g /\ g <= 10 /\ 0 <= o /\ o <= 10)
            /\ resp.status = 200 =>
                  \E d \in Range(store["preferences"]) :
                      /\ d.id = resp.id
                      /\ d.rec.glow_intensity = g
                      /\ d.rec.card_opacity = o

\* C8 witness: a body with glow_intensity 1.0 and card_opacity 0 was stored.
C8_Witness ==
    /\ resp.op = "create" /\ resp.path = "preferences" /\ resp.status = 200
    /\ "glow_intensity" \in DOMAIN resp.req /\ resp.req.glow_intensity = 10
    /\ "card_opacity" \in DOMAIN resp.req /\ resp.req.card_opacity = 0

\* C9 (as claimed): a 500 response carries a message bounded in length (the
\* bound being the one GET /test truncates to).
C9_TruncatedMessage ==
    (resp.status = 500 /\ resp.op \in {"create", "list", "coach"}) =>
        Len(resp.detail) <= TruncLen

PcOrder ==
    {<<"idle", "habits">>, <<"habits", "routines">>, <<"routines", "tasks">>,
     <<"tasks", "moods">>, <<"moods", "insert">>}

\* C10: in POST /coach/plan the reads happen in the order habits, routines,
\* tasks, moods, each going on only from the one before; the coachplan
\* collection changes only in the step taken after the four reads, by one
\* document, and that step ends the request; the plan written has the focus
\* of the lists read, also when habits or tasks were stored in between.
C10_ReadsThenOneInsert ==
    [][ /\ cp'.pc # cp.pc => (cp'.pc = "idle" \/ <<cp.pc, cp'.pc>> \in PcOrder)
        /\ store'["coachplan"] # store["coachplan"] =>
              /\ cp.pc = "insert" /\ cp'.pc = "idle"
              /\ Len(store'["coachplan"]) = Len(store["coachplan"]) + 1
              /\ LET new == store'["coachplan"][Len(store'["coachplan"])]
                 IN  new.rec.focus =
                         RuleFocus(cp.mood, Len(cp.habits), Len(cp.tasks))
        /\ cp.pc # "insert" => store'["coachplan"] = store["coachplan"] ]_vars

\* C10 witness: a plan with the habit tag, written from a read of fewer than
\* 3 habits when 3 were stored at the time of the insert.
C10_Witness ==
    \E e \in planLog :
        /\ Len(e.habits) < 3
        /\ Len(e.habitsAtInsert) >= 3
        /\ "add a keystone habit" \in Range(PlanDoc(e).rec.focus)

====
